---- MODULE Spec2Model ----
(***************************************************************************)
(* Layer (xs/src/libslic3r/Layer.cpp): the lifecycle of Layer objects and  *)
(* their neighbour links, the management of the LayerRegion objects a      *)
(* layer owns, the merging of region slices into islands (make_slices) and *)
(* the grouped perimeter generation (make_perimeters).                     *)
(*                                                                         *)
(* Objects live at addresses: a Layer at one of LayerPtrs, a LayerRegion   *)
(* at one of RegionPtrs.  NULL is the null pointer.  A destroyed layer's   *)
(* address may be handed out again by a later construction.                *)
(***************************************************************************)
EXTENDS Integers, Sequences, FiniteSets, TLC

VARIABLES
    pc,                   \* per Layer address: "free", "live", or the position inside ~Layer
    upper_layer,          \* Layer::upper_layer
    lower_layer,          \* Layer::lower_layer
    regions,              \* Layer::regions, a vector of LayerRegion pointers
    slices,               \* Layer::slices.expolygons, the islands
    perimeter_expolygons, \* Layer::perimeter_expolygons.expolygons
    slicing_errors,       \* Layer::slicing_errors
    attrs,                \* Layer::_id, height, print_z, slice_z
    lregion,              \* the heap of LayerRegion objects
    next_region,          \* the next address operator new hands out for a LayerRegion
    print_regions,        \* the PrintRegion objects (shared configuration), by address
    last,                 \* the outcome of the last call, as its caller sees it
    worker                \* per layer, the pass a worker runs on it and the pass's locals

vars == <<pc, upper_layer, lower_layer, regions, slices, perimeter_expolygons,
          slicing_errors, attrs, lregion, next_region, print_regions, last, worker>>

linkVars == <<upper_layer, lower_layer>>
geomVars == <<slices, perimeter_expolygons>>

(***************************************************************************)
(* Bounds of the model.                                                    *)
(***************************************************************************)
MaxLayers == 3
MaxRegionPtrs == 3
MaxStackRegions == 1
MaxGeomRegions == 2
NumCells == 3
MaxSliceSurfaces == 3
MaxPerimSurfaces == 2
SizeBits == 16

NULL == 0
LayerPtrs == 1..MaxLayers
RegionPtrs == 1..MaxRegionPtrs
PrintRegionPtrs == 1..MaxRegionPtrs

(***************************************************************************)
(* Sequence helpers.                                                       *)
(***************************************************************************)
Range(s) == {s[i] : i \in 1..Len(s)}

RemoveAt(s, k) == [i \in 1..(Len(s) - 1) |-> IF i < k THEN s[i] ELSE s[i + 1]]

IsInjective(s) == \A i, j \in 1..Len(s) : s[i] = s[j] => i = j

(***************************************************************************)
(* Configuration of a region, the fields make_perimeters reads.            *)
(***************************************************************************)
BaseConfig ==
    [perimeter_extruder |-> 1, perimeters |-> 1, perimeter_speed |-> 1,
     gap_fill_speed |-> 1, overhangs |-> TRUE,
     perimeter_extrusion_width |-> [value |-> 0, percent |-> FALSE],
     thin_walls |-> TRUE, external_perimeters_first |-> FALSE]

(***************************************************************************)
(* A LayerRegion as its constructor leaves it, and a released one.         *)
(***************************************************************************)
NewLayerRegion(l, p) ==
    [alive |-> TRUE, layer |-> l, region |-> p, slices |-> <<>>,
     fill_surfaces |-> <<>>, perimeter_surfaces |-> <<>>]

FreedLayerRegion ==
    [alive |-> FALSE, layer |-> NULL, region |-> NULL, slices |-> <<>>,
     fill_surfaces |-> <<>>, perimeter_surfaces |-> <<>>]

(***************************************************************************)
(* The outcome of a call.                                                  *)
(***************************************************************************)
Outcome(op, l, idx, err, ret, calls, groups) ==
    [op |-> op, layer |-> l, idx |-> idx, err |-> err, ret |-> ret,
     calls |-> calls, groups |-> groups]

NoCall == Outcome("none", NULL, 0, "none", NULL, <<>>, <<>>)

\* The process runs; a call that crashed it ends the run.
Running == last.err # "crash"

\* No destructor is under way: the owning stack serialises the calls.
Idle == Running /\ \A l \in LayerPtrs : pc[l] \in {"free", "live"}

NoAttrs == [id |-> 0, height |-> 0, print_z |-> 0, slice_z |-> 0]

(***************************************************************************)
(* A worker thread on a layer: the pass it runs (op), where it stands in   *)
(* it (at), the passes it has finished (ran) and the locals of the pass:   *)
(* the merged slices of make_slices, the loop position, the done set, the  *)
(* groups formed and the generator calls made of make_perimeters.          *)
(***************************************************************************)
NoWorker ==
    [op |-> "none", at |-> "idle", ran |-> {}, slices |-> <<>>, i |-> 0,
     done |-> {}, groups |-> <<>>, calls |-> <<>>]

NoWorkers == [l \in LayerPtrs |-> NoWorker]

(***************************************************************************)
(* Layer::Layer                                                            *)
(***************************************************************************)
Construct(l) ==
    /\ UNCHANGED worker
    /\ Idle
    /\ pc[l] = "free"
    /\ pc' = [pc EXCEPT ![l] = "live"]
    /\ upper_layer' = [upper_layer EXCEPT ![l] = NULL]
    /\ lower_layer' = [lower_layer EXCEPT ![l] = NULL]
    /\ regions' = [regions EXCEPT ![l] = <<>>]
    /\ slicing_errors' = [slicing_errors EXCEPT ![l] = FALSE]
    /\ slices' = [slices EXCEPT ![l] = <<>>]
    /\ attrs' = [attrs EXCEPT ![l] = [id |-> l - 1, height |-> 1, print_z |-> l, slice_z |-> l]]
    /\ last' = Outcome("construct", l, 0, "none", l, <<>>, <<>>)
    /\ UNCHANGED <<perimeter_expolygons, lregion, next_region, print_regions>>

(***************************************************************************)
(* The owning stack links a layer above its predecessor.                   *)
(***************************************************************************)
Link(a, b) ==
    /\ UNCHANGED worker
    /\ Idle
    /\ a # b
    /\ pc[a] = "live" /\ pc[b] = "live"
    /\ lower_layer[a] = NULL
    /\ upper_layer[b] = NULL
    /\ lower_layer' = [lower_layer EXCEPT ![a] = b]
    /\ upper_layer' = [upper_layer EXCEPT ![b] = a]
    /\ last' = Outcome("link", a, 0, "none", NULL, <<>>, <<>>)
    /\ UNCHANGED <<pc, regions, geomVars, slicing_errors, attrs, lregion,
                   next_region, print_regions>>

(***************************************************************************)
(* Layer::region_count, Layer::get_region                                  *)
(***************************************************************************)
region_count(l) == Len(regions[l])

\* int to size_t, the conversion at the call of std::vector::at.
ToSizeT(i) == i % (2 ^ SizeBits)

\* std::vector::at: throws std::out_of_range when n >= size().
VectorAt(v, n) ==
    IF n >= Len(v) THEN [err |-> "OutOfRange", ret |-> NULL]
    ELSE [err |-> "none", ret |-> v[n + 1]]

\* Variant: an index out of range is clamped to the nearest valid one.
get_region_Clamped(l, idx) ==
    IF Len(regions[l]) = 0 THEN [err |-> "OutOfRange", ret |-> NULL]
    ELSE IF idx < 0 THEN [err |-> "none", ret |-> regions[l][1]]
    ELSE IF idx >= Len(regions[l])
         THEN [err |-> "none", ret |-> regions[l][Len(regions[l])]]
    ELSE [err |-> "none", ret |-> regions[l][idx + 1]]

get_region(l, idx) == VectorAt(regions[l], ToSizeT(idx))

GetRegion(l, idx) ==
    /\ UNCHANGED worker
    /\ Idle
    /\ pc[l] = "live"
    /\ LET r == get_region(l, idx)
       IN  last' = Outcome("get_region", l, idx, r.err, r.ret, <<>>, <<>>)
    /\ UNCHANGED <<pc, linkVars, regions, geomVars, slicing_errors, attrs,
                   lregion, next_region, print_regions>>

(***************************************************************************)
(* Layer::add_region                                                       *)
(***************************************************************************)
AddRegion(l, p) ==
    /\ UNCHANGED worker
    /\ Idle
    /\ pc[l] = "live"
    /\ next_region \in RegionPtrs
    /\ lregion' = [lregion EXCEPT ![next_region] = NewLayerRegion(l, p)]
    /\ regions' = [regions EXCEPT ![l] = Append(@, next_region)]
    /\ next_region' = next_region + 1
    /\ last' = Outcome("add_region", l, 0, "none", next_region, <<>>, <<>>)
    /\ UNCHANGED <<pc, linkVars, geomVars, slicing_errors, attrs, print_regions>>

(***************************************************************************)
(* Layer::delete_region                                                    *)
(*                                                                         *)
(* regions.begin() + idx is dereferenced and erased with no range check.   *)
(* For idx in [0, size) the element is erased and the region deleted.      *)
(* For any other idx the behaviour is undefined: the builds at hand either *)
(* crash, or return normally with the vector as it was, or return with the *)
(* vector's end moved down by one (erase decrements the end pointer).      *)
(***************************************************************************)
ValidIndex(v, idx) == 0 <= idx /\ idx < Len(v)

\* Variant: the last element is erased and deleted, whatever idx is.
delete_region_Last(v, heap, idx) ==
    [regions |-> RemoveAt(v, Len(v)),
     heap |-> [heap EXCEPT ![v[Len(v)]] = FreedLayerRegion]]

\* The vector and the heap after delete_region(idx), idx valid.
delete_region(v, heap, idx) ==
    [regions |-> RemoveAt(v, idx + 1),
     heap |-> [heap EXCEPT ![v[idx + 1]] = FreedLayerRegion]]

\* What an out-of-range delete_region may leave behind.
DeleteRegionUB(v) ==
    {[err |-> "crash", regions |-> v], [err |-> "none", regions |-> v]}
    \cup (IF Len(v) > 0
          THEN {[err |-> "none", regions |-> SubSeq(v, 1, Len(v) - 1)]}
          ELSE {})

DeleteRegion(l, idx) ==
    /\ UNCHANGED worker
    /\ Idle
    /\ pc[l] = "live"
    /\ IF ValidIndex(regions[l], idx)
       THEN LET d == delete_region(regions[l], lregion, idx)
            IN  /\ regions' = [regions EXCEPT ![l] = d.regions]
                /\ lregion' = d.heap
                /\ last' = Outcome("delete_region", l, idx, "none", NULL, <<>>, <<>>)
       ELSE \E ub \in DeleteRegionUB(regions[l]) :
                /\ regions' = [regions EXCEPT ![l] = ub.regions]
                /\ lregion' = lregion
                /\ last' = Outcome("delete_region", l, idx, ub.err, NULL, <<>>, <<>>)
    /\ UNCHANGED <<pc, linkVars, geomVars, slicing_errors, attrs, next_region,
                   print_regions>>

(***************************************************************************)
(* Layer::clear_regions: for (int i = size()-1; i >= 0; --i)               *)
(*                           delete_region(i);                             *)
(* The run records every call it makes: the index and the size then.  A    *)
(* call with an index out of range ends the run (the loop as written makes *)
(* none).                                                                  *)
(***************************************************************************)
RECURSIVE ClearFrom(_, _, _, _)
ClearFrom(v, heap, i, calls) ==
    IF i >= 0
    THEN IF ValidIndex(v, i)
         THEN LET d == delete_region(v, heap, i)
              IN  ClearFrom(d.regions, d.heap, i - 1, Append(calls, <<i, Len(v)>>))
         ELSE [regions |-> v, heap |-> heap, calls |-> Append(calls, <<i, Len(v)>>),
               err |-> "crash"]
    ELSE [regions |-> v, heap |-> heap, calls |-> calls, err |-> "none"]

clear_regions(v, heap) == ClearFrom(v, heap, Len(v) - 1, <<>>)

ClearRegions(l) ==
    /\ UNCHANGED worker
    /\ Idle
    /\ pc[l] = "live"
    /\ LET c == clear_regions(regions[l], lregion)
       IN  /\ regions' = [regions EXCEPT ![l] = c.regions]
           /\ lregion' = c.heap
           /\ last' = Outcome("clear_regions", l, 0, c.err, NULL, c.calls, <<>>)
    /\ UNCHANGED <<pc, linkVars, geomVars, slicing_errors, attrs, next_region,
                   print_regions>>

(***************************************************************************)
(* Layer::~Layer, statement by statement.                                  *)
(***************************************************************************)
\* Variant: the regions are released first, the neighbours unlinked after.
DtorUnlinkUpper_ReleasesFirst(l) ==
    /\ UNCHANGED worker
    /\ Idle
    /\ pc[l] = "live"
    /\ lower_layer' = IF upper_layer[l] # NULL
                      THEN [lower_layer EXCEPT ![upper_layer[l]] = NULL]
                      ELSE lower_layer
    /\ LET c == clear_regions(regions[l], lregion)
       IN  /\ regions' = [regions EXCEPT ![l] = c.regions]
           /\ lregion' = c.heap
           /\ last' = Outcome("destroy", l, 0, c.err, NULL, c.calls, <<>>)
    /\ pc' = [pc EXCEPT ![l] = "dtor_lower"]
    /\ UNCHANGED <<upper_layer, geomVars, slicing_errors, attrs, next_region,
                   print_regions>>

\* if (NULL != this->upper_layer) this->upper_layer->lower_layer = NULL;
DtorUnlinkUpper(l) ==
    /\ UNCHANGED worker
    /\ Idle
    /\ pc[l] = "live"
    /\ lower_layer' = IF upper_layer[l] # NULL
                      THEN [lower_layer EXCEPT ![upper_layer[l]] = NULL]
                      ELSE lower_layer
    /\ pc' = [pc EXCEPT ![l] = "dtor_lower"]
    /\ last' = Outcome("destroy", l, 0, "none", NULL, <<>>, <<>>)
    /\ UNCHANGED <<upper_layer, regions, geomVars, slicing_errors, attrs,
                   lregion, next_region, print_regions>>

\* Variant: the layer below keeps its reference.
DtorUnlinkLower_Forgets(l) ==
    /\ UNCHANGED worker
    /\ Running
    /\ pc[l] = "dtor_lower"
    /\ pc' = [pc EXCEPT ![l] = "dtor_regions"]
    /\ UNCHANGED <<linkVars, regions, geomVars, slicing_errors, attrs,
                   lregion, next_region, print_regions, last>>

\* if (NULL != this->lower_layer) this->lower_layer->upper_layer = NULL;
DtorUnlinkLower(l) ==
    /\ UNCHANGED worker
    /\ Running
    /\ pc[l] = "dtor_lower"
    /\ upper_layer' = IF lower_layer[l] # NULL
                      THEN [upper_layer EXCEPT ![lower_layer[l]] = NULL]
                      ELSE upper_layer
    /\ pc' = [pc EXCEPT ![l] = "dtor_regions"]
    /\ UNCHANGED <<lower_layer, regions, geomVars, slicing_errors, attrs,
                   lregion, next_region, print_regions, last>>

\* this->clear_regions(); then the object's storage is released.  The released
\* storage keeps the two links the destructor never wrote (nothing reads them:
\* the next construction at this address resets them); the rest is blanked.
DtorClearRegions(l) ==
    /\ UNCHANGED worker
    /\ Running
    /\ pc[l] = "dtor_regions"
    /\ LET c == clear_regions(regions[l], lregion)
       IN  /\ regions' = [regions EXCEPT ![l] = c.regions]
           /\ lregion' = c.heap
           /\ last' = Outcome("destroy", l, 0, c.err, NULL, c.calls, <<>>)
    /\ pc' = [pc EXCEPT ![l] = "free"]
    /\ UNCHANGED linkVars
    /\ slices' = [slices EXCEPT ![l] = <<>>]
    /\ perimeter_expolygons' = [perimeter_expolygons EXCEPT ![l] = <<>>]
    /\ slicing_errors' = [slicing_errors EXCEPT ![l] = FALSE]
    /\ attrs' = [attrs EXCEPT ![l] = NoAttrs]
    /\ UNCHANGED <<next_region, print_regions>>

(***************************************************************************)
(* The layer stack: construction, linking, region management, destruction. *)
(***************************************************************************)
NoPolygons == [l \in LayerPtrs |-> <<>>]

Init ==
    /\ worker = NoWorkers
    /\ pc = [l \in LayerPtrs |-> "free"]
    /\ upper_layer = [l \in LayerPtrs |-> NULL]
    /\ lower_layer = [l \in LayerPtrs |-> NULL]
    /\ regions = [l \in LayerPtrs |-> <<>>]
    /\ slices = NoPolygons
    /\ perimeter_expolygons = NoPolygons
    /\ slicing_errors = [l \in LayerPtrs |-> FALSE]
    /\ attrs = [l \in LayerPtrs |-> NoAttrs]
    /\ lregion = [r \in RegionPtrs |-> FreedLayerRegion]
    /\ next_region = 1
    /\ print_regions = [p \in PrintRegionPtrs |-> [config |-> BaseConfig]]
    /\ last = NoCall

Next ==
    \/ \E l \in LayerPtrs : Construct(l)
    \/ \E a, b \in LayerPtrs : Link(a, b)
    \/ \E l \in LayerPtrs : next_region <= MaxStackRegions /\ AddRegion(l, 1)
    \/ \E l \in LayerPtrs : DtorUnlinkUpper(l)
    \/ \E l \in LayerPtrs : DtorUnlinkLower(l)
    \/ \E l \in LayerPtrs : DtorClearRegions(l)

Spec == Init /\ [][Next]_vars

(***************************************************************************)
(* Region management on constructed layers.                                *)
(***************************************************************************)
\* The indices tried on a vector: one below the range, the range, one above it.
IndexInputs(v) == -1..Len(v)

InitRegions ==
    /\ worker = NoWorkers
    /\ pc = [l \in LayerPtrs |-> "live"]
    /\ upper_layer = [l \in LayerPtrs |-> NULL]
    /\ lower_layer = [l \in LayerPtrs |-> NULL]
    /\ regions = [l \in LayerPtrs |-> <<>>]
    /\ slices = NoPolygons
    /\ perimeter_expolygons = NoPolygons
    /\ slicing_errors = [l \in LayerPtrs |-> FALSE]
    /\ attrs = [l \in LayerPtrs |-> [id |-> l - 1, height |-> 1, print_z |-> l, slice_z |-> l]]
    /\ lregion = [r \in RegionPtrs |-> FreedLayerRegion]
    /\ next_region = 1
    /\ print_regions = [p \in PrintRegionPtrs |-> [config |-> BaseConfig]]
    /\ last = NoCall

NextRegions ==
    \/ \E l \in LayerPtrs : \E idx \in IndexInputs(regions[l]) : GetRegion(l, idx)
    \/ \E l \in LayerPtrs : AddRegion(l, 1)
    \/ \E l \in LayerPtrs : \E idx \in IndexInputs(regions[l]) : DeleteRegion(l, idx)
    \/ \E l \in LayerPtrs : ClearRegions(l)

SpecRegions == InitRegions /\ [][NextRegions]_vars

\* The same, every delete_region called with an index in range.
ValidIndices(v) == 0..(Len(v) - 1)

NextValidRegions ==
    \/ \E l \in LayerPtrs : \E idx \in IndexInputs(regions[l]) : GetRegion(l, idx)
    \/ \E l \in LayerPtrs : AddRegion(l, 1)
    \/ \E l \in LayerPtrs : \E idx \in ValidIndices(regions[l]) : DeleteRegion(l, idx)
    \/ \E l \in LayerPtrs : ClearRegions(l)

SpecValidRegions == InitRegions /\ [][NextValidRegions]_vars

(***************************************************************************)
(* Geometry.  The plane is a row of unit cells 1..NumCells.  A polygon (an *)
(* ExPolygon; a row has no holes) covers the cells lo..hi and its contour  *)
(* starts at its low end.  Two polygons overlap when they share a cell and *)
(* touch when one ends where the other begins (cells hi and hi + 1).       *)
(***************************************************************************)
Cells == 1..NumCells

ExPolygons == {ex \in [lo : Cells, hi : Cells] : ex.lo <= ex.hi}

CellsOf(ex) == ex.lo..ex.hi

\* The points a sequence of polygons covers.
Covered(exs) == UNION {CellsOf(exs[i]) : i \in 1..Len(exs)}

\* Polygon::first_point of the contour.
first_point(ex) == ex.lo

Distance(a, b) == IF a >= b THEN a - b ELSE b - a

Min(S) == CHOOSE x \in S : \A y \in S : x <= y
Max(S) == CHOOSE x \in S : \A y \in S : x >= y

\* The maximal runs of a set of cells, from the low end up: what a boolean
\* operation returns for the area S.
RECURSIVE Components(_)
Components(S) ==
    IF S = {} THEN <<>>
    ELSE LET lo == Min(S)
             hi == Max({e \in S : \A c \in lo..e : c \in S})
         IN  <<[lo |-> lo, hi |-> hi]>> \o Components(S \ (lo..hi))

\* A Surface: a polygon with its classification and extra perimeter count.
Surface(ex, t, e) == [expolygon |-> ex, surface_type |-> t, extra_perimeters |-> e]

\* SurfaceCollection to ExPolygons / Polygons: the polygons, in order.
ExPolygonsOf(surfaces) == [i \in 1..Len(surfaces) |-> surfaces[i].expolygon]

\* ClipperUtils: union_, union_ex, intersection_ex.
union_(polygons) == Components(Covered(polygons))

union_ex(surfaces) == Components(Covered(ExPolygonsOf(surfaces)))

intersection_ex(subject, clip) ==
    Components(Covered(ExPolygonsOf(subject)) \cap Covered(ExPolygonsOf(clip)))

\* Point::nearest_point_index over the points not yet visited: the first of
\* the nearest ones.
NearestPos(start, points, rem) ==
    CHOOSE k \in 1..Len(rem) :
        \A j \in 1..Len(rem) :
            \/ Distance(start, points[rem[k]]) < Distance(start, points[rem[j]])
            \/ /\ Distance(start, points[rem[k]]) = Distance(start, points[rem[j]])
               /\ k <= j

\* Geometry::chained_path: from the first point, always on to the nearest
\* point not yet visited.  The order holds positions in points (from 1).
RECURSIVE ChainFrom(_, _, _, _)
ChainFrom(points, rem, start, order) ==
    IF rem = <<>> THEN order
    ELSE LET k == NearestPos(start, points, rem)
         IN  ChainFrom(points, RemoveAt(rem, k), points[rem[k]], Append(order, rem[k]))

chained_path(points) ==
    IF points = <<>> THEN <<>>
    ELSE ChainFrom(points, [i \in 1..Len(points) |-> i], points[1], <<>>)

(***************************************************************************)
(* Layer::make_slices                                                      *)
(***************************************************************************)
\* slices_p: every region's polygons, region after region.
RECURSIVE ConcatSlices(_)
ConcatSlices(rs) ==
    IF rs = <<>> THEN <<>>
    ELSE ExPolygonsOf(lregion[Head(rs)].slices) \o ConcatSlices(Tail(rs))

\* Variant: the regions' polygons are put together without the union.
MergedSlices_NoUnion(l) == ConcatSlices(regions[l])

\* The local slices: one region's own slices, or the union of all regions'.
MergedSlices(l) ==
    IF Len(regions[l]) = 1
    THEN ExPolygonsOf(lregion[regions[l][1]].slices)
    ELSE union_(ConcatSlices(regions[l]))

\* Variant: the chain order is applied to all islands but the last.
OrderSlices_DropsLast(merged) ==
    LET order == chained_path([i \in 1..Len(merged) |-> first_point(merged[i])])
    IN  [k \in 1..(Len(order) - 1) |-> merged[order[k]]]

\* The islands in chain order of their contours' first points.
OrderSlices(merged) ==
    LET order == chained_path([i \in 1..Len(merged) |-> first_point(merged[i])])
    IN  [k \in 1..Len(order) |-> merged[order[k]]]

make_slices(l) == OrderSlices(MergedSlices(l))

\* Variant: the islands of the previous run are kept, the new ones added.
MakeSlices_KeepsOld(l) ==
    /\ UNCHANGED worker
    /\ Idle
    /\ pc[l] = "live"
    /\ slices' = [slices EXCEPT ![l] = @ \o make_slices(l)]
    /\ last' = Outcome("make_slices", l, 0, "none", NULL, <<>>, <<>>)
    /\ UNCHANGED <<pc, linkVars, regions, perimeter_expolygons, slicing_errors,
                   attrs, lregion, next_region, print_regions>>

\* Variant: a layer with slicing errors is left without islands.
MakeSlices_SkipsFlagged(l) ==
    /\ UNCHANGED worker
    /\ Idle
    /\ pc[l] = "live"
    /\ slices' = [slices EXCEPT ![l] = IF slicing_errors[l] THEN <<>> ELSE make_slices(l)]
    /\ last' = Outcome("make_slices", l, 0, "none", NULL, <<>>, <<>>)
    /\ UNCHANGED <<pc, linkVars, regions, perimeter_expolygons, slicing_errors,
                   attrs, lregion, next_region, print_regions>>

MakeSlices(l) ==
    /\ UNCHANGED worker
    /\ Idle
    /\ pc[l] = "live"
    /\ LET cleared == <<>>
       IN  slices' = [slices EXCEPT ![l] = cleared \o make_slices(l)]
    /\ last' = Outcome("make_slices", l, 0, "none", NULL, <<>>, <<>>)
    /\ UNCHANGED <<pc, linkVars, regions, perimeter_expolygons, slicing_errors,
                   attrs, lregion, next_region, print_regions>>

(***************************************************************************)
(* Inputs of the geometry: one constructed layer whose regions hold raw    *)
(* slices.  flat is the layer's surfaces region after region, own the      *)
(* region each belongs to.                                                 *)
(***************************************************************************)
Owners(k, n) ==
    {own \in [1..k -> 1..n] : \A i, j \in 1..k : i <= j => own[i] <= own[j]}

SlicesOf(flat, own, r) ==
    LET mine == {i \in 1..Len(flat) : own[i] = r}
    IN  IF mine = {} THEN <<>> ELSE SubSeq(flat, Min(mine), Max(mine))

\* Layer 1 with regions 1..n, region r bound to PrintRegion r and holding the
\* raw slices raw[r]; errors is the layer's slicing_errors flag, prior what an
\* earlier perimeter pass left in the regions and in the layer.
NoPrior == [fill_surfaces |-> <<>>, perimeter_surfaces |-> <<>>, perimeter_expolygons |-> <<>>]

LayerWith(n, raw, configs, errors, prior) ==
    /\ worker = NoWorkers
    /\ pc = [l \in LayerPtrs |-> IF l = 1 THEN "live" ELSE "free"]
    /\ upper_layer = [l \in LayerPtrs |-> NULL]
    /\ lower_layer = [l \in LayerPtrs |-> NULL]
    /\ regions = [l \in LayerPtrs |-> IF l = 1 THEN [r \in 1..n |-> r] ELSE <<>>]
    /\ slices = NoPolygons
    /\ perimeter_expolygons =
           [l \in LayerPtrs |-> IF l = 1 THEN prior.perimeter_expolygons ELSE <<>>]
    /\ slicing_errors = [l \in LayerPtrs |-> l = 1 /\ errors]
    /\ attrs = [l \in LayerPtrs |->
                   IF l = 1 THEN [id |-> 0, height |-> 1, print_z |-> 1, slice_z |-> 1]
                   ELSE NoAttrs]
    /\ lregion = [r \in RegionPtrs |->
                     IF r <= n
                     THEN [NewLayerRegion(1, r) EXCEPT
                              !.slices = raw[r],
                              !.fill_surfaces = prior.fill_surfaces,
                              !.perimeter_surfaces = prior.perimeter_surfaces]
                     ELSE FreedLayerRegion]
    /\ next_region = n + 1
    /\ print_regions = [p \in PrintRegionPtrs |->
                           [config |-> IF p <= n THEN configs[p] ELSE BaseConfig]]
    /\ last = NoCall

\* The same with the surfaces given region after region, no slicing error
\* and nothing left by an earlier pass.
LayerWithRegions(n, flat, own, configs) ==
    LayerWith(n, [r \in 1..n |-> SlicesOf(flat, own, r)], configs, FALSE, NoPrior)

SliceInputs == {Surface(ex, "stInternal", 0) : ex \in ExPolygons}

InitSlices ==
    \E n \in 0..MaxGeomRegions, k \in 0..MaxSliceSurfaces :
        /\ n = 0 => k = 0
        /\ \E flat \in [1..k -> SliceInputs], own \in Owners(k, n) :
               LayerWithRegions(n, flat, own, [p \in 1..n |-> BaseConfig])

NextSlices == \E l \in LayerPtrs : MakeSlices(l)

SpecSlices == InitSlices /\ [][NextSlices]_vars

(***************************************************************************)
(* Layer::make_perimeters                                                  *)
(***************************************************************************)
\* ConfigBase::serialize of perimeter_extrusion_width (a float or percent):
\* the number, followed by "%" for a percentage.
Serialize(width) ==
    IF width.percent THEN <<width.value, "%">> ELSE <<width.value>>

\* Variant: thin_walls is left out of the comparison.
Compatible_NoThinWalls(config, other_config) ==
    /\ config.perimeter_extruder = other_config.perimeter_extruder
    /\ config.perimeters = other_config.perimeters
    /\ config.perimeter_speed = other_config.perimeter_speed
    /\ config.gap_fill_speed = other_config.gap_fill_speed
    /\ config.overhangs = other_config.overhangs
    /\ Serialize(config.perimeter_extrusion_width)
           = Serialize(other_config.perimeter_extrusion_width)
    /\ config.external_perimeters_first = other_config.external_perimeters_first

\* The test that puts other_layerm into the group of layerm.
Compatible(config, other_config) ==
    /\ config.perimeter_extruder = other_config.perimeter_extruder
    /\ config.perimeters = other_config.perimeters
    /\ config.perimeter_speed = other_config.perimeter_speed
    /\ config.gap_fill_speed = other_config.gap_fill_speed
    /\ config.overhangs = other_config.overhangs
    /\ Serialize(config.perimeter_extrusion_width)
           = Serialize(other_config.perimeter_extrusion_width)
    /\ config.thin_walls = other_config.thin_walls
    /\ config.external_perimeters_first = other_config.external_perimeters_first

\* region()->config of the LayerRegion at address r.
ConfigOf(heap, r) == print_regions[heap[r].region].config

\* Sequence helpers of the perimeter pass.
RECURSIVE Select(_, _)
Select(s, keep) ==
    IF s = <<>> THEN <<>>
    ELSE IF Head(s) \in keep THEN <<Head(s)>> \o Select(Tail(s), keep)
    ELSE Select(Tail(s), keep)

\* layerms: the region at position i and every compatible later one.
GroupOf(heap, rs, i) ==
    <<rs[i]>> \o
    Select(SubSeq(rs, i + 1, Len(rs)),
           {r \in Range(rs) : Compatible(ConfigOf(heap, rs[i]), ConfigOf(heap, r))})

\* LayerRegion::make_perimeters (the perimeter generator): of every input
\* surface the outermost config.perimeters cells at each end become
\* perimeter surfaces, what lies between them a fill surface.
PerimeterCells(ex, w) == {c \in CellsOf(ex) : c - ex.lo < w \/ ex.hi - c < w}

RECURSIVE Generate(_, _)
Generate(surfaces, config) ==
    IF surfaces = <<>> THEN [perimeter |-> <<>>, fill |-> <<>>]
    ELSE LET s == Head(surfaces)
             pcells == PerimeterCells(s.expolygon, config.perimeters)
             pp == Components(pcells)
             ff == Components(CellsOf(s.expolygon) \ pcells)
             rest == Generate(Tail(surfaces), config)
         IN  [perimeter |->
                  [i \in 1..Len(pp) |-> Surface(pp[i], s.surface_type, s.extra_perimeters)]
                  \o rest.perimeter,
              fill |->
                  [i \in 1..Len(ff) |-> Surface(ff[i], "stInternal", 0)] \o rest.fill]

\* Variant: the region's collections are not cleared before the generator
\* adds to them.
SingleRegionPerimeters_NoClear(heap, r) ==
    LET gen == Generate(heap[r].slices, ConfigOf(heap, r))
        h == [heap EXCEPT ![r].fill_surfaces = @ \o gen.fill,
                          ![r].perimeter_surfaces = @ \o gen.perimeter]
    IN  [heap |-> h, perimeter_expolygons |-> ExPolygonsOf(h[r].perimeter_surfaces),
         input |-> heap[r].slices, output |-> gen]

\* The single-region path: lines 206-211.
SingleRegionPerimeters(heap, r) ==
    LET gen == Generate(heap[r].slices, ConfigOf(heap, r))
        cleared == <<>>
        h == [heap EXCEPT ![r].fill_surfaces = cleared \o gen.fill,
                          ![r].perimeter_surfaces = cleared \o gen.perimeter]
    IN  [heap |-> h, perimeter_expolygons |-> ExPolygonsOf(h[r].perimeter_surfaces),
         input |-> heap[r].slices, output |-> gen]

\* Every surface of every member's slices, member after member.
RECURSIVE PooledSlices(_, _)
PooledSlices(heap, layerms) ==
    IF layerms = <<>> THEN <<>>
    ELSE heap[Head(layerms)].slices \o PooledSlices(heap, Tail(layerms))

\* slices[extra_perimeters]: the pooled surfaces with that count, in order.
RECURSIVE Bucket(_, _)
Bucket(pooled, e) ==
    IF pooled = <<>> THEN <<>>
    ELSE IF Head(pooled).extra_perimeters = e
         THEN <<Head(pooled)>> \o Bucket(Tail(pooled), e)
    ELSE Bucket(Tail(pooled), e)

\* new_slices: bucket after bucket in increasing key order, the union of
\* each bucket tagged like the bucket's first surface.
RECURSIVE NewSlices(_, _)
NewSlices(pooled, keys) ==
    IF keys = {} THEN <<>>
    ELSE LET e == Min(keys)
             b == Bucket(pooled, e)
             expp == union_ex(b)
         IN  [i \in 1..Len(expp) |-> [b[1] EXCEPT !.expolygon = expp[i]]]
             \o NewSlices(pooled, keys \ {e})

\* The pieces of a pooled set that lie in a region's slices, tagged like tpl.
SplitBack(pooled_set, region_slices, tpl) ==
    LET expp == intersection_ex(pooled_set, region_slices)
    IN  [i \in 1..Len(expp) |-> [tpl EXCEPT !.expolygon = expp[i]]]

\* Lines 243-269: fill and perimeter surfaces of every member replaced.
RECURSIVE Redistribute(_, _, _, _)
Redistribute(heap, layerms, fill, perimeter) ==
    IF layerms = <<>> THEN heap
    ELSE LET r == Head(layerms)
             h == [heap EXCEPT
                      ![r].fill_surfaces = SplitBack(fill, heap[r].slices, fill[1]),
                      ![r].perimeter_surfaces =
                          SplitBack(perimeter, heap[r].slices, fill[1])]
         IN  Redistribute(h, Tail(layerms), fill, perimeter)

\* The multi-region path: lines 213-270.
GroupPerimeters(heap, layerms) ==
    LET pooled == PooledSlices(heap, layerms)
        keys == {pooled[i].extra_perimeters : i \in 1..Len(pooled)}
        new_slices == NewSlices(pooled, keys)
        gen == Generate(new_slices, ConfigOf(heap, layerms[1]))
    IN  [heap |-> IF gen.fill # <<>>
                  THEN Redistribute(heap, layerms, gen.fill, gen.perimeter)
                  ELSE heap,
         perimeter_expolygons |-> ExPolygonsOf(gen.perimeter),
         input |-> new_slices, output |-> gen]

\* The state of the loop over the regions: the positions done, the regions
\* so far, the layer's perimeter_expolygons so far, the groups formed and
\* the calls of the perimeter generator (the region it was called on, the
\* surfaces handed to it and the two collections it filled) so far.
LoopState(done, heap, pexp, groups, calls) ==
    [done |-> done, heap |-> heap, perimeter_expolygons |-> pexp,
     groups |-> groups, calls |-> calls]

\* Variant: only the leader of a group is entered into done.
PerimetersAt_LeaderOnly(rs, i, st) ==
    IF rs[i] \in st.done THEN st
    ELSE LET layerms == GroupOf(st.heap, rs, i)
             res == IF Len(layerms) = 1
                    THEN SingleRegionPerimeters(st.heap, rs[i])
                    ELSE GroupPerimeters(st.heap, layerms)
         IN  LoopState(st.done \cup {rs[i]}, res.heap, res.perimeter_expolygons,
                       Append(st.groups, layerms),
                       Append(st.calls,
                              [layerm |-> rs[i], slices |-> res.input,
                               perimeter_surfaces |-> res.output.perimeter,
                               fill_surfaces |-> res.output.fill]))

\* One pass of the loop body, for the region at position i: lines 180-271.
PerimetersAt(rs, i, st) ==
    IF rs[i] \in st.done THEN st
    ELSE LET layerms == GroupOf(st.heap, rs, i)
             res == IF Len(layerms) = 1
                    THEN SingleRegionPerimeters(st.heap, rs[i])
                    ELSE GroupPerimeters(st.heap, layerms)
         IN  LoopState(st.done \cup Range(layerms), res.heap, res.perimeter_expolygons,
                       Append(st.groups, layerms),
                       Append(st.calls,
                              [layerm |-> rs[i], slices |-> res.input,
                               perimeter_surfaces |-> res.output.perimeter,
                               fill_surfaces |-> res.output.fill]))

\* The loop from position i on: lines 179-272.
RECURSIVE PerimetersFrom(_, _, _)
PerimetersFrom(rs, i, st) ==
    IF i > Len(rs) THEN st ELSE PerimetersFrom(rs, i + 1, PerimetersAt(rs, i, st))

make_perimeters(l) ==
    PerimetersFrom(regions[l], 1,
                   LoopState({}, lregion, perimeter_expolygons[l], <<>>, <<>>))

\* Variant: the contours of the perimeter surfaces are stored as the layer's
\* islands as well.
MakePerimeters_StoresIslands(l) ==
    /\ UNCHANGED worker
    /\ Idle
    /\ pc[l] = "live"
    /\ LET res == make_perimeters(l)
       IN  /\ lregion' = res.heap
           /\ perimeter_expolygons' =
                  [perimeter_expolygons EXCEPT ![l] = res.perimeter_expolygons]
           /\ slices' = [slices EXCEPT ![l] = res.perimeter_expolygons]
           /\ last' = Outcome("make_perimeters", l, 0, "none", NULL, res.calls, res.groups)
    /\ UNCHANGED <<pc, linkVars, regions, slicing_errors, attrs,
                   next_region, print_regions>>

MakePerimeters(l) ==
    /\ UNCHANGED worker
    /\ Idle
    /\ pc[l] = "live"
    /\ LET res == make_perimeters(l)
       IN  /\ lregion' = res.heap
           /\ perimeter_expolygons' =
                  [perimeter_expolygons EXCEPT ![l] = res.perimeter_expolygons]
           /\ last' = Outcome("make_perimeters", l, 0, "none", NULL, res.calls, res.groups)
    /\ UNCHANGED <<pc, linkVars, regions, slices, slicing_errors, attrs,
                   next_region, print_regions>>

(***************************************************************************)
(* Grouping: one layer, every region with a configuration of its own.      *)
(***************************************************************************)
GroupConfigs ==
    {BaseConfig,
     [BaseConfig EXCEPT !.perimeter_extruder = 2],
     [BaseConfig EXCEPT !.perimeters = 2],
     [BaseConfig EXCEPT !.perimeter_speed = 2],
     [BaseConfig EXCEPT !.gap_fill_speed = 2],
     [BaseConfig EXCEPT !.overhangs = FALSE],
     [BaseConfig EXCEPT !.perimeter_extrusion_width = [value |-> 0, percent |-> TRUE]],
     [BaseConfig EXCEPT !.perimeter_extrusion_width = [value |-> 1, percent |-> FALSE]],
     [BaseConfig EXCEPT !.thin_walls = FALSE],
     [BaseConfig EXCEPT !.external_perimeters_first = TRUE]}

WholeRow == Surface([lo |-> 1, hi |-> NumCells], "stInternal", 0)

InitGroups ==
    \E n \in 0..MaxRegionPtrs :
        \E configs \in [1..n -> GroupConfigs] :
            LayerWithRegions(n, [i \in 1..n |-> WholeRow], [i \in 1..n |-> i], configs)

NextGroups == \E l \in LayerPtrs : MakePerimeters(l)

SpecGroups == InitGroups /\ [][NextGroups]_vars

(***************************************************************************)
(* Perimeters: one layer, its regions' raw slices and perimeter counts     *)
(* varied.                                                                 *)
(***************************************************************************)
SurfaceAttrs ==
    {[surface_type |-> "stInternal", extra_perimeters |-> 0],
     [surface_type |-> "stTop", extra_perimeters |-> 1]}

PerimInputs ==
    {Surface(ex, a.surface_type, a.extra_perimeters) : ex \in ExPolygons, a \in SurfaceAttrs}

PerimConfigs == {BaseConfig, [BaseConfig EXCEPT !.perimeters = 0]}

InitPerim ==
    \E n \in 0..MaxGeomRegions, k \in 0..MaxPerimSurfaces :
        /\ n = 0 => k = 0
        /\ \E flat \in [1..k -> PerimInputs], own \in Owners(k, n),
              configs \in [1..n -> PerimConfigs] :
               LayerWithRegions(n, flat, own, configs)

NextPerim == \E l \in LayerPtrs : MakePerimeters(l)

SpecPerim == InitPerim /\ [][NextPerim]_vars

(***************************************************************************)
(* Perimeters over what an earlier pass left: every region holds at most   *)
(* one raw slice, and the regions and the layer start either empty or with *)
(* the surfaces of an earlier pass over other slices.                      *)
(***************************************************************************)
StalePrior ==
    [fill_surfaces |-> <<Surface([lo |-> 1, hi |-> 1], "stInternal", 0)>>,
     perimeter_surfaces |-> <<Surface([lo |-> NumCells, hi |-> NumCells], "stInternal", 0)>>,
     perimeter_expolygons |-> <<[lo |-> NumCells, hi |-> NumCells]>>]

RegionSlices == {<<>>} \cup {<<s>> : s \in PerimInputs}

InitStale ==
    \E n \in 0..MaxGeomRegions :
        \E raw \in [1..n -> RegionSlices], configs \in [1..n -> PerimConfigs],
           prior \in {NoPrior, StalePrior} :
            LayerWith(n, raw, configs, FALSE, prior)

NextStale == \E l \in LayerPtrs : MakePerimeters(l)

SpecStale == InitStale /\ [][NextStale]_vars

(***************************************************************************)
(* Layer::make_perimeters when a call it makes fails.  The geometry        *)
(* primitives and the perimeter generator report a failure by an           *)
(* exception; make_perimeters catches none, so the call ends at the        *)
(* failing statement with everything written before it in place.          *)
(***************************************************************************)
FailStages == {"union_ex", "make_perimeters", "fill_intersection", "perimeter_intersection"}

\* Whether the group layerms reaches the call named by stage for its m-th
\* member (m = 1 for the calls made once per group).
CanFail(heap, layerms, stage, m) ==
    IF Len(layerms) = 1
    THEN stage = "make_perimeters" /\ m = 1
    ELSE LET pooled == PooledSlices(heap, layerms)
             keys == {pooled[i].extra_perimeters : i \in 1..Len(pooled)}
             gen == Generate(NewSlices(pooled, keys), ConfigOf(heap, layerms[1]))
         IN  CASE stage = "union_ex" -> pooled # <<>> /\ m = 1
               [] stage = "make_perimeters" -> m = 1
               [] OTHER -> gen.fill # <<>> /\ m \in 1..Len(layerms)

\* Lines 243-269 up to the intersection that fails for the m-th member: the
\* members before it are rewritten, and its own fill_surfaces too when the
\* second intersection is the one that fails.
RECURSIVE RedistributeUntil(_, _, _, _, _, _)
RedistributeUntil(heap, layerms, fill, perimeter, stage, m) ==
    LET r == Head(layerms)
    IN  IF m = 1
        THEN IF stage = "fill_intersection" THEN heap
             ELSE [heap EXCEPT
                      ![r].fill_surfaces = SplitBack(fill, heap[r].slices, fill[1])]
        ELSE RedistributeUntil(Redistribute(heap, <<r>>, fill, perimeter),
                               Tail(layerms), fill, perimeter, stage, m - 1)

\* The regions and the layer's perimeter_expolygons when the call fails.
FailedGroup(heap, pexp, layerms, stage, m) ==
    IF Len(layerms) = 1
    THEN \* lines 206-208: both collections cleared, then the generator fails
         [heap |-> [heap EXCEPT ![layerms[1]].fill_surfaces = <<>>,
                                ![layerms[1]].perimeter_surfaces = <<>>],
          perimeter_expolygons |-> pexp]
    ELSE IF stage \in {"union_ex", "make_perimeters"}
    THEN \* lines 214-235 write locals only
         [heap |-> heap, perimeter_expolygons |-> pexp]
    ELSE LET pooled == PooledSlices(heap, layerms)
             keys == {pooled[i].extra_perimeters : i \in 1..Len(pooled)}
             gen == Generate(NewSlices(pooled, keys), ConfigOf(heap, layerms[1]))
         IN  [heap |-> RedistributeUntil(heap, layerms, gen.fill, gen.perimeter, stage, m),
              perimeter_expolygons |-> ExPolygonsOf(gen.perimeter)]

\* The loop from position i on, the g-th group failing at stage for its m-th
\* member; failed tells whether the loop got to that call.
RECURSIVE PerimetersFailing(_, _, _, _, _, _)
PerimetersFailing(rs, i, st, g, stage, m) ==
    IF i > Len(rs) THEN [failed |-> FALSE, st |-> st]
    ELSE IF rs[i] \in st.done THEN PerimetersFailing(rs, i + 1, st, g, stage, m)
    ELSE IF Len(st.groups) + 1 < g
    THEN PerimetersFailing(rs, i + 1, PerimetersAt(rs, i, st), g, stage, m)
    ELSE LET layerms == GroupOf(st.heap, rs, i)
             res == FailedGroup(st.heap, st.perimeter_expolygons, layerms, stage, m)
         IN  IF ~CanFail(st.heap, layerms, stage, m) THEN [failed |-> FALSE, st |-> st]
             ELSE [failed |-> TRUE,
                   st |-> LoopState(st.done \cup Range(layerms), res.heap,
                                    res.perimeter_expolygons, Append(st.groups, layerms),
                                    st.calls)]

MakePerimetersFails(l, g, stage, m) ==
    /\ UNCHANGED worker
    /\ Idle
    /\ pc[l] = "live"
    /\ LET res == PerimetersFailing(regions[l], 1,
                      LoopState({}, lregion, perimeter_expolygons[l], <<>>, <<>>),
                      g, stage, m)
       IN  /\ res.failed
           /\ lregion' = res.st.heap
           /\ perimeter_expolygons' =
                  [perimeter_expolygons EXCEPT ![l] = res.st.perimeter_expolygons]
           /\ last' = Outcome("make_perimeters", l, 0, "DegenerateGeometry", NULL,
                              res.st.calls, res.st.groups)
    /\ UNCHANGED <<pc, linkVars, regions, slices, slicing_errors, attrs,
                   next_region, print_regions>>

NextFailing ==
    \/ \E l \in LayerPtrs : MakePerimeters(l)
    \/ \E l \in LayerPtrs :
           \E g \in 1..Len(regions[l]), stage \in FailStages, m \in 1..Len(regions[l]) :
               MakePerimetersFails(l, g, stage, m)

SpecFailing == InitStale /\ [][NextFailing]_vars

(***************************************************************************)
(* Layers whose slicing reported errors: one layer with the flag set or    *)
(* not, every region with at most one raw slice, both passes.              *)
(***************************************************************************)
FlaggedSlices == {<<>>} \cup {<<s>> : s \in SliceInputs}

InitFlagged ==
    \E n \in 0..MaxGeomRegions :
        \E raw \in [1..n -> FlaggedSlices], errors \in BOOLEAN :
            LayerWith(n, raw, [p \in 1..n |-> BaseConfig], errors, NoPrior)

NextFlagged ==
    \/ \E l \in LayerPtrs : MakeSlices(l)
    \/ \E l \in LayerPtrs : MakePerimeters(l)

SpecFlagged == InitFlagged /\ [][NextFlagged]_vars

(***************************************************************************)
(* Both passes in any order over what an earlier pass left: the regions    *)
(* start with the surfaces of an earlier pass over other slices, the raw   *)
(* slices with their types and extra perimeters and the perimeter counts   *)
(* are varied as for the perimeter pass alone.                             *)
(***************************************************************************)
InitPasses ==
    \E n \in 0..MaxGeomRegions :
        \E raw \in [1..n -> RegionSlices], configs \in [1..n -> PerimConfigs] :
            LayerWith(n, raw, configs, FALSE, StalePrior)

NextPasses ==
    \/ \E l \in LayerPtrs : MakeSlices(l)
    \/ \E l \in LayerPtrs : MakePerimeters(l)

SpecPasses == InitPasses /\ [][NextPasses]_vars

(***************************************************************************)
(* Layer::make_slices when a call it makes fails.  union_ and chained_path *)
(* report a failure by an exception; make_slices catches none, so the call *)
(* ends at the failing statement with everything written before it in      *)
(* place.                                                                  *)
(***************************************************************************)
SliceFailStages == {"union_", "chained_path"}

\* Whether make_slices on layer l reaches the call named by stage with
\* something to work on: union_ is called for any region count but one
\* (line 113), chained_path always (line 127).
CanFailSlices(l, stage) ==
    IF stage = "union_"
    THEN Len(regions[l]) # 1 /\ ConcatSlices(regions[l]) # <<>>
    ELSE MergedSlices(l) # <<>>

\* The islands of layer l when the call fails: lines 103-113 write locals
\* only; line 116 empties the islands before chained_path is called, and the
\* loop that fills them again (lines 130-132) is never reached.
FailedSlices(l, stage) ==
    IF stage = "union_" THEN slices[l]
    ELSE LET cleared == <<>>
         IN  cleared

MakeSlicesFails(l, stage) ==
    /\ UNCHANGED worker
    /\ Idle
    /\ pc[l] = "live"
    /\ CanFailSlices(l, stage)
    /\ slices' = [slices EXCEPT ![l] = FailedSlices(l, stage)]
    /\ last' = Outcome("make_slices", l, 0, "DegenerateGeometry", NULL, <<>>, <<>>)
    /\ UNCHANGED <<pc, linkVars, regions, perimeter_expolygons, slicing_errors,
                   attrs, lregion, next_region, print_regions>>

NextSlicesFailing ==
    \/ \E l \in LayerPtrs : MakeSlices(l)
    \/ \E l \in LayerPtrs, stage \in SliceFailStages : MakeSlicesFails(l, stage)

SpecSlicesFailing == InitFlagged /\ [][NextSlicesFailing]_vars

(***************************************************************************)
(* The two passes run by one worker per layer, statement by statement: the *)
(* workers of different layers take their steps in any order.  A pass that *)
(* has returned is in the worker's ran; last, the outcome of a single      *)
(* caller's last call, is not written by the workers.                      *)
(***************************************************************************)
Passes == {"make_slices", "make_perimeters"}

CanBegin(l, pass) ==
    /\ Running
    /\ pc[l] = "live"
    /\ worker[l].op = "none"
    /\ pass \notin worker[l].ran

\* make_slices, lines 103-114: the local slices.
SlicesMerge(l) ==
    /\ CanBegin(l, "make_slices")
    /\ worker' = [worker EXCEPT ![l] = [@ EXCEPT !.op = "make_slices", !.at = "clear",
                                                 !.slices = MergedSlices(l)]]
    /\ UNCHANGED <<pc, linkVars, regions, geomVars, slicing_errors, attrs, lregion,
                   next_region, print_regions, last>>

\* Variant: the islands of all layers are one shared collection, cleared by
\* every layer's pass.
SlicesClear_Shared(l) ==
    /\ Running
    /\ worker[l].op = "make_slices" /\ worker[l].at = "clear"
    /\ slices' = [x \in LayerPtrs |-> <<>>]
    /\ worker' = [worker EXCEPT ![l].at = "populate"]
    /\ UNCHANGED <<pc, linkVars, regions, perimeter_expolygons, slicing_errors, attrs,
                   lregion, next_region, print_regions, last>>

\* make_slices, lines 116-117: this->slices.expolygons.clear().
SlicesClear(l) ==
    /\ Running
    /\ worker[l].op = "make_slices" /\ worker[l].at = "clear"
    /\ slices' = [slices EXCEPT ![l] = <<>>]
    /\ worker' = [worker EXCEPT ![l].at = "populate"]
    /\ UNCHANGED <<pc, linkVars, regions, perimeter_expolygons, slicing_errors, attrs,
                   lregion, next_region, print_regions, last>>

\* make_slices, lines 120-132: the local slices pushed in chain order.
SlicesPopulate(l) ==
    /\ Running
    /\ worker[l].op = "make_slices" /\ worker[l].at = "populate"
    /\ slices' = [slices EXCEPT ![l] = @ \o OrderSlices(worker[l].slices)]
    /\ worker' = [worker EXCEPT ![l] = [NoWorker EXCEPT !.ran = worker[l].ran \cup {"make_slices"}]]
    /\ UNCHANGED <<pc, linkVars, regions, perimeter_expolygons, slicing_errors, attrs,
                   lregion, next_region, print_regions, last>>

\* make_perimeters, line 177: the empty done set, the loop at the first region.
\* A layer's worker makes the layer's islands before its perimeters.
PerimetersBegin(l) ==
    /\ CanBegin(l, "make_perimeters")
    /\ "make_slices" \in worker[l].ran
    /\ worker' = [worker EXCEPT ![l] = [@ EXCEPT !.op = "make_perimeters", !.at = "loop",
                                                 !.i = 1]]
    /\ UNCHANGED <<pc, linkVars, regions, geomVars, slicing_errors, attrs, lregion,
                   next_region, print_regions, last>>

\* make_perimeters, lines 179-272: one pass of the loop body.
PerimetersStep(l) ==
    /\ Running
    /\ worker[l].op = "make_perimeters" /\ worker[l].at = "loop"
    /\ worker[l].i <= Len(regions[l])
    /\ LET w == worker[l]
           st == PerimetersAt(regions[l], w.i,
                              LoopState(w.done, lregion, perimeter_expolygons[l],
                                        w.groups, w.calls))
       IN  /\ lregion' = st.heap
           /\ perimeter_expolygons' =
                  [perimeter_expolygons EXCEPT ![l] = st.perimeter_expolygons]
           /\ worker' = [worker EXCEPT ![l] = [@ EXCEPT !.i = w.i + 1, !.done = st.done,
                                                        !.groups = st.groups,
                                                        !.calls = st.calls]]
    /\ UNCHANGED <<pc, linkVars, regions, slices, slicing_errors, attrs, next_region,
                   print_regions, last>>

\* make_perimeters, line 273: the loop is over, the call returns.
PerimetersEnd(l) ==
    /\ Running
    /\ worker[l].op = "make_perimeters" /\ worker[l].at = "loop"
    /\ worker[l].i > Len(regions[l])
    /\ worker' = [worker EXCEPT ![l] = [NoWorker EXCEPT !.ran = worker[l].ran \cup {"make_perimeters"}]]
    /\ UNCHANGED <<pc, linkVars, regions, geomVars, slicing_errors, attrs, lregion,
                   next_region, print_regions, last>>

\* The raw slice of region r: the row from cell r (the last cell for the
\* regions beyond it) to the end, so that the slices of a layer overlap.
RowFrom(r) ==
    Surface([lo |-> IF r <= NumCells THEN r ELSE NumCells, hi |-> NumCells],
            "stInternal", 0)

\* The regions of layer l under the ownership own, in address order.
RegionsOf(own, l) ==
    LET mine == {r \in RegionPtrs : own[r] = l}
    IN  IF mine = {} THEN <<>> ELSE [k \in 1..Cardinality(mine) |-> Min(mine) + k - 1]

\* The configurations of the regions: all the same, or every other region
\* without perimeters (neighbouring regions then fall into different groups).
WorkerConfigs ==
    {[p \in RegionPtrs |-> BaseConfig],
     [p \in RegionPtrs |->
         IF p % 2 = 1 THEN BaseConfig ELSE [BaseConfig EXCEPT !.perimeters = 0]]}

\* A stack of MaxLayers linked layers, the regions spread over them, every
\* region with one raw slice.
InitWorkers ==
    \E own \in Owners(MaxRegionPtrs, MaxLayers), configs \in WorkerConfigs :
        /\ worker = NoWorkers
        /\ pc = [l \in LayerPtrs |-> "live"]
        /\ upper_layer = [l \in LayerPtrs |-> IF l < MaxLayers THEN l + 1 ELSE NULL]
        /\ lower_layer = [l \in LayerPtrs |-> IF l > 1 THEN l - 1 ELSE NULL]
        /\ regions = [l \in LayerPtrs |-> RegionsOf(own, l)]
        /\ slices = NoPolygons
        /\ perimeter_expolygons = NoPolygons
        /\ slicing_errors = [l \in LayerPtrs |-> FALSE]
        /\ attrs = [l \in LayerPtrs |->
                       [id |-> l - 1, height |-> 1, print_z |-> l, slice_z |-> l]]
        /\ lregion = [r \in RegionPtrs |->
                         [NewLayerRegion(own[r], r) EXCEPT !.slices = <<RowFrom(r)>>]]
        /\ next_region = MaxRegionPtrs + 1
        /\ print_regions = [p \in PrintRegionPtrs |-> [config |-> configs[p]]]
        /\ last = NoCall

NextWorkers ==
    \/ \E l \in LayerPtrs : SlicesMerge(l)
    \/ \E l \in LayerPtrs : SlicesClear(l)
    \/ \E l \in LayerPtrs : SlicesPopulate(l)
    \/ \E l \in LayerPtrs : PerimetersBegin(l)
    \/ \E l \in LayerPtrs : PerimetersStep(l)
    \/ \E l \in LayerPtrs : PerimetersEnd(l)

SpecWorkers == InitWorkers /\ [][NextWorkers]_vars

(***************************************************************************)
(* C1.  Neighbour symmetry: in every reachable state, for all live layers  *)
(* a and b, a.lower_layer = b if and only if b.upper_layer = a; and a      *)
(* layer that has just been constructed has both links null.               *)
(***************************************************************************)
Live(l) == pc[l] = "live"

NeighbourSymmetry ==
    /\ \A a, b \in LayerPtrs :
           Live(a) /\ Live(b) => (lower_layer[a] = b <=> upper_layer[b] = a)
    /\ last.op = "construct" =>
           upper_layer[last.layer] = NULL /\ lower_layer[last.layer] = NULL

\* A layer linked between two others has been destroyed: both neighbours
\* are live and neither refers to it any more.
NeighbourSymmetryWitness ==
    \E l \in LayerPtrs :
        /\ pc[l] = "free" /\ last.op = "destroy" /\ last.layer = l
        /\ upper_layer[l] # NULL /\ lower_layer[l] # NULL
        /\ upper_layer[l] # lower_layer[l]
        /\ Live(upper_layer[l]) /\ Live(lower_layer[l])
        /\ lower_layer[upper_layer[l]] = NULL
        /\ upper_layer[lower_layer[l]] = NULL

(***************************************************************************)
(* C2.  Destruction leaves no dangling reference: once the destructor of   *)
(* layer l has reached clear_regions, and for as long as l's storage stays *)
(* released, no other layer's upper_layer or lower_layer is l; and a step  *)
(* that releases a region of a layer under destruction starts and ends in  *)
(* a state where no other layer refers to that layer.                      *)
(***************************************************************************)
Referenced(l) ==
    \E x \in LayerPtrs \ {l} :
        pc[x] # "free" /\ (upper_layer[x] = l \/ lower_layer[x] = l)

NoDanglingNeighbour ==
    \A l \in LayerPtrs : pc[l] \in {"dtor_regions", "free"} => ~Referenced(l)

ReleaseAfterUnlink ==
    \A r \in RegionPtrs, l \in LayerPtrs :
        (lregion[r].alive /\ lregion[r].layer = l /\ ~lregion'[r].alive /\ pc'[l] # "live")
            => ~Referenced(l) /\ ~Referenced(l)'

DestroyLeavesNoDangling == []NoDanglingNeighbour /\ [][ReleaseAfterUnlink]_vars

\* A layer that owned a region and had a neighbour on each side is gone, its
\* regions released, and both former neighbours are still live.
DestroyLeavesNoDanglingWitness ==
    \E l \in LayerPtrs :
        /\ pc[l] = "free" /\ last.op = "destroy" /\ last.layer = l
        /\ Len(last.calls) > 0
        /\ upper_layer[l] # NULL /\ lower_layer[l] # NULL
        /\ Live(upper_layer[l]) /\ Live(lower_layer[l])

(***************************************************************************)
(* C3.  get_region(index) with index outside [0, region_count), negative   *)
(* indices included, fails with OutOfRange and returns no region; with     *)
(* index inside the range it returns the region at that position; in both  *)
(* cases the region list and the regions are left as they were.            *)
(***************************************************************************)
GetRegionResult ==
    last.op = "get_region" =>
        LET v == regions[last.layer]
        IN  IF 0 <= last.idx /\ last.idx < Len(v)
            THEN last.err = "none" /\ last.ret = v[last.idx + 1]
            ELSE last.err = "OutOfRange" /\ last.ret = NULL

GetRegionFrame ==
    last'.op = "get_region" => UNCHANGED <<regions, lregion>>

GetRegionChecked == []GetRegionResult /\ [][GetRegionFrame]_vars

\* Both error cases and the normal case, on a layer that holds regions.
GetRegionCheckedWitness ==
    /\ last.op = "get_region" /\ last.err = "OutOfRange"
    /\ last.idx < 0
    /\ Len(regions[last.layer]) >= 2

(***************************************************************************)
(* C4.  delete_region(index) with index outside [0, region_count) fails    *)
(* with OutOfRange and leaves the region list unchanged, no region removed *)
(* or destroyed.                                                           *)
(***************************************************************************)
DeleteRegionRejectsStep ==
    (last'.op = "delete_region" /\ ~ValidIndex(regions[last'.layer], last'.idx))
        => /\ last'.err = "OutOfRange"
           /\ UNCHANGED <<regions, lregion>>

DeleteRegionRejects == [][DeleteRegionRejectsStep]_vars

(***************************************************************************)
(* C5.  After any sequence of add_region, valid delete_region and          *)
(* clear_regions calls a layer's region list is exactly the live regions   *)
(* allocated for it, each once, in the order they were added (addresses    *)
(* are handed out in increasing order).  add_region returns the region it  *)
(* appended, bound to the layer, at index region_count - 1.  A valid       *)
(* delete_region(i) removes and destroys the region at position i only,    *)
(* the later ones moving down by one.  clear_regions leaves no region and  *)
(* every index it passes to delete_region is in range when passed.         *)
(***************************************************************************)
OwnedRegions(l) == {r \in RegionPtrs : lregion[r].alive /\ lregion[r].layer = l}

RegionListExact ==
    \A l \in LayerPtrs :
        Live(l) =>
            /\ Range(regions[l]) = OwnedRegions(l)
            /\ \A i, j \in 1..Len(regions[l]) : i < j => regions[l][i] < regions[l][j]

AddRegionResult ==
    last.op = "add_region" =>
        /\ region_count(last.layer) >= 1
        /\ regions[last.layer][region_count(last.layer)] = last.ret
        /\ get_region(last.layer, region_count(last.layer) - 1).ret = last.ret
        /\ lregion[last.ret] = NewLayerRegion(last.layer, lregion[last.ret].region)

ClearRegionsResult ==
    last.op = "clear_regions" =>
        /\ region_count(last.layer) = 0
        /\ last.err = "none"
        /\ \A k \in 1..Len(last.calls) :
               0 <= last.calls[k][1] /\ last.calls[k][1] < last.calls[k][2]

DeleteRegionStep ==
    (last'.op = "delete_region" /\ ValidIndex(regions[last'.layer], last'.idx))
        => LET l == last'.layer
               v == regions[l]
               k == last'.idx + 1
           IN  /\ Len(regions'[l]) = Len(v) - 1
               /\ \A i \in 1..Len(v) :
                      /\ i < k => regions'[l][i] = v[i]
                      /\ i > k => regions'[l][i - 1] = v[i]
               /\ ~lregion'[v[k]].alive
               /\ \A r \in RegionPtrs \ {v[k]} : lregion'[r] = lregion[r]
               /\ \A x \in LayerPtrs \ {l} : regions'[x] = regions[x]

RegionListMaintained ==
    /\ [](RegionListExact /\ AddRegionResult /\ ClearRegionsResult)
    /\ [][DeleteRegionStep]_vars

\* A region was deleted from the middle of three, then the rest cleared.
RegionListMaintainedWitness ==
    /\ last.op = "clear_regions"
    /\ Len(last.calls) = 2
    /\ \E r \in RegionPtrs : ~lregion[r].alive /\ r < next_region
    /\ next_region > MaxRegionPtrs

(***************************************************************************)
(* C6.  Area conservation of make_slices: for zero, one or many regions    *)
(* whose raw slices are valid (no two slices of one region overlap; slices *)
(* of different regions may), the islands cover exactly the points the     *)
(* regions' raw slices cover, every covered point lies in exactly one      *)
(* island, and no island is stored twice.                                  *)
(***************************************************************************)
SelfDisjoint(exs) ==
    \A i, j \in 1..Len(exs) : i < j => CellsOf(exs[i]) \cap CellsOf(exs[j]) = {}

RawSlices(r) == ExPolygonsOf(lregion[r].slices)

ValidRawSlices(l) == \A r \in Range(regions[l]) : SelfDisjoint(RawSlices(r))

AreaConservation ==
    (last.op = "make_slices" /\ ValidRawSlices(last.layer)) =>
        /\ Covered(slices[last.layer]) = Covered(ConcatSlices(regions[last.layer]))
        /\ SelfDisjoint(slices[last.layer])
        /\ IsInjective(slices[last.layer])

\* Two regions whose raw slices overlap each other have been merged.
AreaConservationWitness ==
    /\ last.op = "make_slices" /\ ValidRawSlices(last.layer)
    /\ Len(regions[last.layer]) >= 2
    /\ Covered(RawSlices(regions[last.layer][1]))
           \cap Covered(RawSlices(regions[last.layer][2])) # {}
    /\ Len(slices[last.layer]) >= 1

(***************************************************************************)
(* C7.  Single-region equivalence.  As claimed: for a layer with exactly   *)
(* one region whose raw slices do not overlap each other, the islands are  *)
(* the region's raw slices as a set, and that is the set the union of the  *)
(* region's polygons gives.                                                *)
(***************************************************************************)
SingleRegionAsUnion(l) ==
    /\ Range(slices[l]) = Range(RawSlices(regions[l][1]))
    /\ Range(slices[l]) = Range(union_(ConcatSlices(regions[l])))

SingleRegionEquivalenceClaimed ==
    (/\ last.op = "make_slices"
     /\ Len(regions[last.layer]) = 1
     /\ SelfDisjoint(RawSlices(regions[last.layer][1])))
        => SingleRegionAsUnion(last.layer)

(***************************************************************************)
(* C7, amended.  The same for a region whose raw slices neither overlap    *)
(* nor touch each other: the union joins slices that touch into one        *)
(* island, the shortcut keeps them apart.                                  *)
(***************************************************************************)
Separated(exs) ==
    \A i, j \in 1..Len(exs) :
        i # j => CellsOf(exs[i]) \cap ((exs[j].lo - 1)..(exs[j].hi + 1)) = {}

SingleRegionEquivalence ==
    (/\ last.op = "make_slices"
     /\ Len(regions[last.layer]) = 1
     /\ Separated(RawSlices(regions[last.layer][1])))
        => SingleRegionAsUnion(last.layer)

\* One region with two slices apart from each other.
SingleRegionEquivalenceWitness ==
    /\ last.op = "make_slices"
    /\ Len(regions[last.layer]) = 1
    /\ Len(RawSlices(regions[last.layer][1])) >= 2
    /\ Separated(RawSlices(regions[last.layer][1]))
    /\ Len(slices[last.layer]) >= 2

(***************************************************************************)
(* C8.  Deterministic ordering: the stored islands are the merged islands  *)
(* in chain order of their contours' first points (from the first island's *)
(* point always on to the nearest island not yet taken, the earlier one in *)
(* the merged list on a tie), and a further run of make_slices on the same *)
(* layer with the same input discards the previous islands and stores the  *)
(* same islands in the same order.                                         *)
(***************************************************************************)
Orders(n) == {ord \in [1..n -> 1..n] : \A i, j \in 1..n : ord[i] = ord[j] => i = j}

InChainOrder(merged, stored) ==
    /\ Len(stored) = Len(merged)
    /\ \E ord \in Orders(Len(merged)) :
          /\ \A k \in 1..Len(merged) : stored[k] = merged[ord[k]]
          /\ \A k, m \in 1..Len(merged) :
                k < m =>
                    LET start == first_point(merged[IF k = 1 THEN 1 ELSE ord[k - 1]])
                        dk == Distance(start, first_point(merged[ord[k]]))
                        dm == Distance(start, first_point(merged[ord[m]]))
                    IN  dk < dm \/ (dk = dm /\ ord[k] < ord[m])

StoredInChainOrder ==
    last.op = "make_slices" =>
        InChainOrder(MergedSlices(last.layer), slices[last.layer])

RerunSameIslands ==
    (last.op = "make_slices" /\ last'.op = "make_slices" /\ last'.layer = last.layer
     /\ lregion' = lregion /\ regions' = regions)
        => slices'[last.layer] = slices[last.layer]

DeterministicOrdering == []StoredInChainOrder /\ [][RerunSameIslands]_vars

\* Three islands stored in another order than the merged list had them.
DeterministicOrderingWitness ==
    /\ last.op = "make_slices"
    /\ Len(slices[last.layer]) >= 3
    /\ slices[last.layer] # MergedSlices(last.layer)

(***************************************************************************)
(* C9.  Grouping correctness: after make_perimeters two regions of the     *)
(* layer are in the same group if and only if their configurations agree   *)
(* on all eight compared fields (the extrusion width as serialized),       *)
(* wherever the two stand in the region list; every region is in a group.  *)
(***************************************************************************)
ComparedFields(c) ==
    <<c.perimeter_extruder, c.perimeters, c.perimeter_speed, c.gap_fill_speed,
      c.overhangs, Serialize(c.perimeter_extrusion_width), c.thin_walls,
      c.external_perimeters_first>>

SameGroup(r1, r2) ==
    \E g \in 1..Len(last.groups) :
        r1 \in Range(last.groups[g]) /\ r2 \in Range(last.groups[g])

GroupingCorrect ==
    last.op = "make_perimeters" =>
        \A r1, r2 \in Range(regions[last.layer]) :
            SameGroup(r1, r2) <=>
                ComparedFields(ConfigOf(lregion, r1)) = ComparedFields(ConfigOf(lregion, r2))

\* The first and the third region share a group, the second, between them
\* and differing in one field, has its own.
GroupingCorrectWitness ==
    /\ last.op = "make_perimeters"
    /\ Len(regions[last.layer]) = 3
    /\ last.groups = <<<<regions[last.layer][1], regions[last.layer][3]>>,
                       <<regions[last.layer][2]>>>>

(***************************************************************************)
(* C10.  Partition law: after make_perimeters, for every region of a group *)
(* fill_surfaces and perimeter_surfaces together cover exactly the points  *)
(* of the region's raw slices, and the post-split surfaces of two distinct *)
(* regions of one group share no point, also when their raw slices         *)
(* overlap.                                                                *)
(***************************************************************************)
PostSplit(r) ==
    Covered(ExPolygonsOf(lregion[r].fill_surfaces))
        \cup Covered(ExPolygonsOf(lregion[r].perimeter_surfaces))

PartitionLaw ==
    last.op = "make_perimeters" =>
        \A g \in 1..Len(last.groups) :
            /\ \A r \in Range(last.groups[g]) : PostSplit(r) = Covered(RawSlices(r))
            /\ \A r1, r2 \in Range(last.groups[g]) :
                   r1 # r2 => PostSplit(r1) \cap PostSplit(r2) = {}

(***************************************************************************)
(* C11.  Pooled input: for a group of several regions the surfaces handed  *)
(* to the perimeter generator cover exactly the points of the members' raw *)
(* slices and count every covered point once (their areas add up to the    *)
(* area of the union), whatever the extra perimeter counts of the          *)
(* members' surfaces are; each member's own raw slices are valid (no two   *)
(* of them overlap).                                                       *)
(***************************************************************************)
RECURSIVE Area(_)
Area(exs) ==
    IF exs = <<>> THEN 0 ELSE Cardinality(CellsOf(Head(exs))) + Area(Tail(exs))

GroupRawCover(layerms) == UNION {Covered(RawSlices(r)) : r \in Range(layerms)}

PooledInputIsUnion ==
    (last.op = "make_perimeters" /\ ValidRawSlices(last.layer)) =>
        \A g \in 1..Len(last.groups) :
            Len(last.groups[g]) > 1 =>
                LET input == ExPolygonsOf(last.calls[g].slices)
                IN  /\ Covered(input) = GroupRawCover(last.groups[g])
                    /\ Area(input) = Cardinality(GroupRawCover(last.groups[g]))

(***************************************************************************)
(* C12.  Idempotence of make_perimeters: a call that follows a call on the *)
(* same layer, with regions, raw slices and configurations unchanged,      *)
(* leaves every region's fill_surfaces and perimeter_surfaces and the      *)
(* layer's perimeter_expolygons covering the same points with the same     *)
(* classification and the same total area as the first call left them:     *)
(* nothing of the first call is added to.                                  *)
(***************************************************************************)
Classified(surfaces) ==
    UNION {{<<c, surfaces[i].surface_type, surfaces[i].extra_perimeters>> :
               c \in CellsOf(surfaces[i].expolygon)} : i \in 1..Len(surfaces)}

SameSurfaces(before, after) ==
    /\ Classified(after) = Classified(before)
    /\ Area(ExPolygonsOf(after)) = Area(ExPolygonsOf(before))

SecondCallSame ==
    (/\ last.op = "make_perimeters" /\ last'.op = "make_perimeters"
     /\ last.err = "none" /\ last'.err = "none"
     /\ last'.layer = last.layer
     /\ regions' = regions /\ print_regions' = print_regions
     /\ \A r \in RegionPtrs : lregion'[r].slices = lregion[r].slices)
        => /\ \A r \in Range(regions[last.layer]) :
                  /\ SameSurfaces(lregion[r].fill_surfaces, lregion'[r].fill_surfaces)
                  /\ SameSurfaces(lregion[r].perimeter_surfaces,
                                  lregion'[r].perimeter_surfaces)
           /\ Covered(perimeter_expolygons'[last.layer])
                  = Covered(perimeter_expolygons[last.layer])
           /\ Area(perimeter_expolygons'[last.layer])
                  = Area(perimeter_expolygons[last.layer])

Idempotent == [][SecondCallSame]_vars

\* A pass over a group of two regions and one over a region on its own have
\* each left fill and perimeter surfaces, the state a further pass starts in.
IdempotentWitness ==
    /\ last.op = "make_perimeters" /\ last.err = "none"
    /\ Len(regions[last.layer]) >= 2
    /\ \E r \in Range(regions[last.layer]) :
           /\ lregion[r].fill_surfaces # <<>>
           /\ lregion[r].perimeter_surfaces # <<>>
           /\ lregion[r].fill_surfaces # StalePrior.fill_surfaces
    /\ perimeter_expolygons[last.layer] # <<>>

(***************************************************************************)
(* C13.  Empty fill: when the perimeter generator fills no fill surface    *)
(* for a group, every region of the group ends with no fill surface and    *)
(* with perimeter surfaces covering its share of the generated perimeter   *)
(* surfaces (those inside its raw slices), whatever it held before.        *)
(***************************************************************************)
EmptyFillReplaces ==
    last.op = "make_perimeters" =>
        \A g \in 1..Len(last.groups) :
            last.calls[g].fill_surfaces = <<>> =>
                \A r \in Range(last.groups[g]) :
                    /\ lregion[r].fill_surfaces = <<>>
                    /\ Covered(ExPolygonsOf(lregion[r].perimeter_surfaces))
                           = Covered(ExPolygonsOf(last.calls[g].perimeter_surfaces))
                                 \cap Covered(RawSlices(r))

(***************************************************************************)
(* C14.  A failure inside make_perimeters: when a geometry primitive or    *)
(* the perimeter generator fails while a group is processed, the call ends *)
(* with the failure and every region of that group holds exactly the       *)
(* fill_surfaces and perimeter_surfaces it held before the call.           *)
(***************************************************************************)
FailureKeepsGroupStep ==
    (last'.op = "make_perimeters" /\ last'.err # "none") =>
        \A r \in Range(last'.groups[Len(last'.groups)]) :
            /\ lregion'[r].fill_surfaces = lregion[r].fill_surfaces
            /\ lregion'[r].perimeter_surfaces = lregion[r].perimeter_surfaces

FailureKeepsGroup == [][FailureKeepsGroupStep]_vars

(***************************************************************************)
(* C15.  slicing_errors is informational: make_slices and make_perimeters  *)
(* leave the flag of every layer as it was, and on a layer with the flag   *)
(* set they end without error and store what they store for the same raw   *)
(* slices without the flag, the islands of the merged raw slices and the   *)
(* regions' surfaces of the perimeter pass; a layer with one region and no *)
(* raw slice ends make_slices with no island and no error.                 *)
(***************************************************************************)
FlagKeptStep ==
    last'.op \in {"make_slices", "make_perimeters"} =>
        /\ slicing_errors' = slicing_errors
        /\ last'.err = "none"

FlagIgnoredStep ==
    /\ last'.op = "make_slices" =>
           slices'[last'.layer] = OrderSlices(MergedSlices(last'.layer))
    /\ last'.op = "make_perimeters" =>
           /\ lregion' = make_perimeters(last'.layer).heap
           /\ perimeter_expolygons'[last'.layer]
                  = make_perimeters(last'.layer).perimeter_expolygons

NoSlicesNoIslands ==
    (/\ last.op = "make_slices"
     /\ Len(regions[last.layer]) = 1
     /\ lregion[regions[last.layer][1]].slices = <<>>)
        => slices[last.layer] = <<>> /\ last.err = "none"

FlagInformational ==
    /\ []NoSlicesNoIslands
    /\ [][FlagKeptStep /\ FlagIgnoredStep]_vars

\* A layer with the flag set has been through both passes: it has islands,
\* and a region of it has surfaces.
FlagInformationalWitness ==
    /\ last.op = "make_perimeters"
    /\ slicing_errors[last.layer]
    /\ slices[last.layer] # <<>>
    /\ \E r \in Range(regions[last.layer]) : lregion[r].perimeter_surfaces # <<>>

(***************************************************************************)
(* C16.  Aggregate perimeter geometry: after make_perimeters the layer's   *)
(* perimeter_expolygons covers the perimeter surfaces generated for every  *)
(* group of the layer, whichever group was processed last.                 *)
(***************************************************************************)
AggregateHoldsAllGroups ==
    (last.op = "make_perimeters" /\ last.err = "none") =>
        \A g \in 1..Len(last.groups) :
            Covered(ExPolygonsOf(last.calls[g].perimeter_surfaces))
                \subseteq Covered(perimeter_expolygons[last.layer])

(***************************************************************************)
(* C17.  Layers are independent under make_slices and make_perimeters:     *)
(* with one worker per layer taking the statements of the two passes in    *)
(* any order, a step that is not of layer L's worker leaves L's islands,   *)
(* L's perimeter_expolygons and L's regions as they are, no step changes a *)
(* neighbour link, a region list, a layer's attributes or flag or a        *)
(* configuration, and a layer whose pass has returned holds what the pass  *)
(* run alone from the initial state leaves: the islands of its regions'    *)
(* raw slices, and the surfaces and perimeter_expolygons of one            *)
(* uninterrupted make_perimeters.                                          *)
(***************************************************************************)
\* The regions before any perimeter pass: no fill and no perimeter surface.
Fresh(heap) ==
    [r \in RegionPtrs |->
        [heap[r] EXCEPT !.fill_surfaces = <<>>, !.perimeter_surfaces = <<>>]]

PerimetersAlone(l) ==
    PerimetersFrom(regions[l], 1, LoopState({}, Fresh(lregion), <<>>, <<>>, <<>>))

WorkersAsSequential ==
    \A l \in LayerPtrs :
        /\ "make_slices" \in worker[l].ran => slices[l] = OrderSlices(MergedSlices(l))
        /\ "make_perimeters" \in worker[l].ran =>
               LET alone == PerimetersAlone(l)
               IN  /\ \A r \in Range(regions[l]) : lregion[r] = alone.heap[r]
                   /\ perimeter_expolygons[l] = alone.perimeter_expolygons

WorkerFrame ==
    /\ UNCHANGED <<pc, linkVars, regions, slicing_errors, attrs, next_region, print_regions>>
    /\ \A r \in RegionPtrs :
           /\ lregion'[r].slices = lregion[r].slices
           /\ lregion'[r].layer = lregion[r].layer
    /\ \A l \in LayerPtrs :
           worker'[l] = worker[l] =>
               /\ slices'[l] = slices[l]
               /\ perimeter_expolygons'[l] = perimeter_expolygons[l]
               /\ \A r \in Range(regions[l]) : lregion'[r] = lregion[r]

LayersIndependent == []WorkersAsSequential /\ [][WorkerFrame]_vars

\* One layer has been through both passes and holds islands and surfaces,
\* while the worker of a second layer stands between clearing and filling
\* its islands and the worker of a third is inside the loop over its two
\* regions.
LayersIndependentWitness ==
    \E a, b, c \in LayerPtrs :
        /\ a # b /\ b # c /\ a # c
        /\ worker[a].ran = Passes /\ slices[a] # <<>>
        /\ \E r \in Range(regions[a]) : lregion[r].perimeter_surfaces # <<>>
        /\ worker[b].op = "make_slices" /\ worker[b].at = "populate"
        /\ worker[c].op = "make_perimeters" /\ worker[c].i = 2
        /\ Len(regions[c]) = 2

(***************************************************************************)
(* C18.  Single-region group: for a region that is alone in its group, the *)
(* general algorithm (bucket, union, generate, intersect back) applied to  *)
(* the group of that one region gives what the single-region path gives    *)
(* for the same input: the region's fill_surfaces and perimeter_surfaces   *)
(* cover the same points with the same classification, and the layer's     *)
(* perimeter_expolygons covers the same points, also when no fill surface  *)
(* is generated.                                                           *)
(***************************************************************************)
SinglePathAsGeneralStep ==
    (last'.op = "make_perimeters" /\ last'.err = "none") =>
        \A g \in 1..Len(last'.groups) :
            Len(last'.groups[g]) = 1 =>
                LET r == last'.groups[g][1]
                    general == GroupPerimeters(lregion, <<r>>)
                IN  /\ SameSurfaces(general.heap[r].fill_surfaces,
                                    lregion'[r].fill_surfaces)
                    /\ SameSurfaces(general.heap[r].perimeter_surfaces,
                                    lregion'[r].perimeter_surfaces)
                    /\ Covered(general.perimeter_expolygons)
                           = Covered(ExPolygonsOf(lregion'[r].perimeter_surfaces))

SinglePathAsGeneral == [][SinglePathAsGeneralStep]_vars

(***************************************************************************)
(* C19.  The groups of one make_perimeters call partition the layer's      *)
(* regions: every region is in exactly one group and once in it, the       *)
(* leader of a group stands before its other members in the region list,   *)
(* the perimeter generator is called once per group, in group order, on    *)
(* the group's leader, and the number of calls is the number of distinct   *)
(* configuration classes among the regions.                                *)
(***************************************************************************)
PosOf(rs, r) == CHOOSE i \in 1..Len(rs) : rs[i] = r

GroupsPartition ==
    last.op = "make_perimeters" =>
        LET rs == regions[last.layer]
            gs == last.groups
        IN  /\ \A r \in Range(rs) :
                   Cardinality({g \in 1..Len(gs) : r \in Range(gs[g])}) = 1
            /\ \A g \in 1..Len(gs) :
                   /\ gs[g] # <<>>
                   /\ IsInjective(gs[g])
                   /\ Range(gs[g]) \subseteq Range(rs)
                   /\ \A k \in 2..Len(gs[g]) : PosOf(rs, gs[g][1]) < PosOf(rs, gs[g][k])
            /\ Len(last.calls) = Len(gs)
            /\ \A g \in 1..Len(gs) : last.calls[g].layerm = gs[g][1]
            /\ Len(last.calls)
                   = Cardinality({ComparedFields(ConfigOf(lregion, r)) : r \in Range(rs)})

\* Three regions, the first on its own, the second leading the third: two
\* calls of the generator, on the first and on the second region.
GroupsPartitionWitness ==
    /\ last.op = "make_perimeters"
    /\ Len(regions[last.layer]) = 3
    /\ last.groups = <<<<regions[last.layer][1]>>,
                       <<regions[last.layer][2], regions[last.layer][3]>>>>
    /\ Len(last.calls) = 2
    /\ last.calls[2].layerm = regions[last.layer][2]

(***************************************************************************)
(* C20.  Attribute templates of the redistribution: in a group of several  *)
(* regions whose surfaces were redistributed, every piece in a member's    *)
(* perimeter_surfaces carries the surface type and extra perimeter count   *)
(* of a surface of the pooled perimeter set, and every piece in its        *)
(* fill_surfaces those of a surface of the pooled fill set.                *)
(***************************************************************************)
AttrsOf(surfaces) ==
    {<<surfaces[i].surface_type, surfaces[i].extra_perimeters>> : i \in 1..Len(surfaces)}

TemplateFromOwnSet ==
    (last.op = "make_perimeters" /\ last.err = "none") =>
        \A g \in 1..Len(last.groups) :
            (Len(last.groups[g]) > 1 /\ last.calls[g].fill_surfaces # <<>>) =>
                \A r \in Range(last.groups[g]) :
                    /\ AttrsOf(lregion[r].perimeter_surfaces)
                           \subseteq AttrsOf(last.calls[g].perimeter_surfaces)
                    /\ AttrsOf(lregion[r].fill_surfaces)
                           \subseteq AttrsOf(last.calls[g].fill_surfaces)

(***************************************************************************)
(* C21.  make_slices is all-or-nothing: when the union or the chain        *)
(* ordering fails, the call ends with the failure and the layer's islands  *)
(* are exactly what they were before the call, neither emptied nor partly  *)
(* filled.                                                                 *)
(***************************************************************************)
SlicesFailureKeepsIslandsStep ==
    (last'.op = "make_slices" /\ last'.err # "none") =>
        slices'[last'.layer] = slices[last'.layer]

SlicesFailureKeepsIslands == [][SlicesFailureKeepsIslandsStep]_vars

(***************************************************************************)
(* C22.  The frame of the two passes: make_slices and make_perimeters      *)
(* leave every region's raw slices, every layer's region list (members,    *)
(* order, count) and every layer's id, height, print_z and slice_z as they *)
(* were; make_slices also leaves every region's fill_surfaces and          *)
(* perimeter_surfaces as they were, and make_perimeters the islands of     *)
(* every layer.  Holding for every call, it holds for every sequence of    *)
(* calls.                                                                  *)
(***************************************************************************)
InputsKeptStep ==
    last'.op \in {"make_slices", "make_perimeters"} =>
        /\ \A r \in RegionPtrs : lregion'[r].slices = lregion[r].slices
        /\ regions' = regions
        /\ attrs' = attrs

SlicesPassFrameStep ==
    last'.op = "make_slices" =>
        \A r \in RegionPtrs :
            /\ lregion'[r].fill_surfaces = lregion[r].fill_surfaces
            /\ lregion'[r].perimeter_surfaces = lregion[r].perimeter_surfaces

PerimetersPassFrameStep ==
    last'.op = "make_perimeters" => slices' = slices

PassesKeepInputs ==
    [][InputsKeptStep /\ SlicesPassFrameStep /\ PerimetersPassFrameStep]_vars

\* Both passes have run on a layer of two regions with raw slices: the
\* layer holds islands, a region holds fill and perimeter surfaces, and the
\* call just ended is the one named.
BothPassesRan(op) ==
    /\ last.op = op
    /\ last.err = "none"
    /\ Len(regions[last.layer]) = 2
    /\ \A r \in Range(regions[last.layer]) : lregion[r].slices # <<>>
    /\ slices[last.layer] # <<>>
    /\ \E r \in Range(regions[last.layer]) :
           /\ lregion[r].fill_surfaces # <<>>
           /\ lregion[r].perimeter_surfaces # <<>>

PassesKeepInputsWitness == BothPassesRan("make_perimeters")

====
